---- MODULE Spec2Model ----
(***************************************************************************)
(* The redstone assembler: an 8-bit instruction encoder (parse_instr and   *)
(* its field encoders) and the driver that fills a 128-byte ROM image from *)
(* the source lines and serialises it as setblock commands on a 4 x 32     *)
(* grid, one command per bit.                                              *)
(*                                                                         *)
(* Text is modelled character by character: a line, a token or a comment   *)
(* is a sequence of one-character strings, so stripping a comment and      *)
(* splitting on whitespace are computed the way the code computes them.    *)
(* An Option<u8> is a number: Some(v) is v in 0..255 and None is -1.       *)
(***************************************************************************)
EXTENDS Integers, Sequences, FiniteSets, TLC

\* Option<u8>::None; every Some(v) is a byte 0..255.
None == 0 - 1

\* main.rs:10
ROM_BYTES == 128

----------------------------------------------------------------------------
(* Bytes: the u8 operators the code uses.                                  *)

\* bit k of the u8 b (k = 0 is the least significant)
Bit(b, k) == (b \div (2 ^ k)) % 2

\* a | b on u8
BitOr(a, b) ==
    LET or(k) == IF Bit(a, k) = 1 \/ Bit(b, k) = 1 THEN 2 ^ k ELSE 0
    IN  or(0) + or(1) + or(2) + or(3) + or(4) + or(5) + or(6) + or(7)

\* a & b on u8
BitAnd(a, b) ==
    LET and(k) == IF Bit(a, k) = 1 /\ Bit(b, k) = 1 THEN 2 ^ k ELSE 0
    IN  and(0) + and(1) + and(2) + and(3) + and(4) + and(5) + and(6) + and(7)

\* b >> m on u8
Shr(b, m) == b \div (2 ^ m)

----------------------------------------------------------------------------
(* Field encoders, main.rs:12-98: partial functions from an operand token  *)
(* to the bits of its field.                                               *)

src_to_bits(reg) ==
    CASE reg = <<"r", "0">> -> \b00000000
      [] reg = <<"r", "1">> -> \b00001000
      [] reg = <<"r", "2">> -> \b00010000
      [] reg = <<"r", "3">> -> \b00011000
      [] OTHER -> None

\* Without the status register among the specials
special_to_bits_no_sr(reg) ==
    CASE reg = <<"r", "0">> -> \b00000000
      [] reg = <<"r", "1">> -> \b00001000
      [] reg = <<"r", "2">> -> \b00010000
      [] reg = <<"r", "3">> -> \b00011000
      [] reg = <<"p", "c">> -> \b00000001
      [] reg = <<"a", "d", "r">> -> \b00001001
      [] reg = <<"s", "p">> -> \b00010001
      [] OTHER -> None

special_to_bits(reg) ==
    CASE reg = <<"r", "0">> -> \b00000000
      [] reg = <<"r", "1">> -> \b00001000
      [] reg = <<"r", "2">> -> \b00010000
      [] reg = <<"r", "3">> -> \b00011000
      [] reg = <<"p", "c">> -> \b00000001
      [] reg = <<"a", "d", "r">> -> \b00001001
      [] reg = <<"s", "p">> -> \b00010001
      [] reg = <<"s", "r">> -> \b00011001
      [] OTHER -> None

half_imm_to_bits(reg) ==
    CASE reg = <<"1">> -> \b00000000
      [] reg = <<"2">> -> \b00001000
      [] reg = <<"3">> -> \b00010000
      [] reg = <<"4">> -> \b00011000
      [] OTHER -> None

imm_to_bits(reg) ==
    CASE reg = <<"0">> \/ reg = <<"0", "b", "0", "0", "0", "0">> -> \b00000000
      [] reg = <<"1">> \/ reg = <<"0", "b", "0", "0", "0", "1">> -> \b00000001
      [] reg = <<"2">> \/ reg = <<"0", "b", "0", "0", "1", "0">> -> \b00000010
      [] reg = <<"3">> \/ reg = <<"0", "b", "0", "0", "1", "1">> -> \b00000011
      [] reg = <<"4">> \/ reg = <<"0", "b", "0", "1", "0", "0">> -> \b00000100
      [] reg = <<"5">> \/ reg = <<"0", "b", "0", "1", "0", "1">> -> \b00000101
      [] reg = <<"6">> \/ reg = <<"0", "b", "0", "1", "1", "0">> -> \b00000110
      [] reg = <<"7">> \/ reg = <<"0", "b", "0", "1", "1", "1">> -> \b00000111
      [] reg = <<"8">> \/ reg = <<"0", "b", "1", "0", "0", "0">> -> \b00001000
      [] reg = <<"9">> \/ reg = <<"0", "b", "1", "0", "0", "1">> -> \b00001001
      [] reg = <<"1", "0">> \/ reg = <<"0", "b", "1", "0", "1", "0">> -> \b00001010
      [] reg = <<"1", "1">> \/ reg = <<"0", "b", "1", "0", "1", "1">> -> \b00001011
      [] reg = <<"1", "2">> \/ reg = <<"0", "b", "1", "1", "0", "0">> -> \b00001100
      [] reg = <<"1", "3">> \/ reg = <<"0", "b", "1", "1", "0", "1">> -> \b00001101
      [] reg = <<"1", "4">> \/ reg = <<"0", "b", "1", "1", "1", "0">> -> \b00001110
      [] reg = <<"1", "5">> \/ reg = <<"0", "b", "1", "1", "1", "1">> -> \b00001111
      [] OTHER -> None

status_to_bits(reg) ==
    CASE reg = <<"0", "0", "0", "0">> -> \b00000000
      [] reg = <<"0", "0", "0", "1">> -> \b00000001
      [] reg = <<"0", "0", "1", "0">> -> \b00000010
      [] reg = <<"0", "0", "1", "1">> -> \b00000011
      [] reg = <<"0", "1", "0", "0">> -> \b00000100
      [] reg = <<"0", "1", "0", "1">> -> \b00000101
      [] reg = <<"0", "1", "1", "0">> -> \b00000110
      [] reg = <<"0", "1", "1", "1">> -> \b00000111
      [] reg = <<"1", "0", "0", "0">> -> \b00001000
      [] reg = <<"1", "0", "0", "1">> -> \b00001001
      [] reg = <<"1", "0", "1", "0">> -> \b00001010
      [] reg = <<"1", "0", "1", "1">> -> \b00001011
      [] reg = <<"1", "1", "0", "0">> -> \b00001100
      [] reg = <<"1", "1", "0", "1">> -> \b00001101
      [] reg = <<"1", "1", "1", "0">> -> \b00001110
      [] reg = <<"1", "1", "1", "1">> -> \b00001111
      [] OTHER -> None

\* The destination index in bits 0-1 instead of bits 1-2
dst_to_bits_low(reg) ==
    CASE reg = <<"r", "0">> -> \b00000000
      [] reg = <<"r", "1">> -> \b00000001
      [] reg = <<"r", "2">> -> \b00000010
      [] reg = <<"r", "3">> -> \b00000011
      [] OTHER -> None

dst_to_bits(reg) ==
    CASE reg = <<"r", "0">> -> \b00000000
      [] reg = <<"r", "1">> -> \b00000010
      [] reg = <<"r", "2">> -> \b00000100
      [] reg = <<"r", "3">> -> \b00000110
      [] OTHER -> None

\* The field encoder an arm of parse_instr applies to an operand: the
\* <kind>_to_bits function it calls.
FieldBits(kind, tok) ==
    CASE kind = "src" -> src_to_bits(tok)
      [] kind = "special" -> special_to_bits(tok)
      [] kind = "half_imm" -> half_imm_to_bits(tok)
      [] kind = "imm" -> imm_to_bits(tok)
      [] kind = "status" -> status_to_bits(tok)
      [] kind = "dst" -> dst_to_bits(tok)

----------------------------------------------------------------------------
(* The match table of parse_instr, main.rs:101-156, in source order.  An   *)
(* arm is the literal mnemonic of its slice pattern, the constant it       *)
(* starts from, and the field encoder called on each operand binding.      *)

\* The family with add first: add, adc, mul, div take 000..011 and sub, sbc,
\* cmp, cpc take 100..111.
ArithmeticAddFirst ==
    <<
    [mn |-> <<"a", "d", "d">>, tag |-> \b00000000, ops |-> <<"src">>],
    [mn |-> <<"a", "d", "c">>, tag |-> \b00000001, ops |-> <<"src">>],
    [mn |-> <<"m", "u", "l">>, tag |-> \b00000010, ops |-> <<"src">>],
    [mn |-> <<"d", "i", "v">>, tag |-> \b00000011, ops |-> <<"src">>],
    [mn |-> <<"s", "u", "b">>, tag |-> \b00000100, ops |-> <<"src">>],
    [mn |-> <<"s", "b", "c">>, tag |-> \b00000101, ops |-> <<"src">>],
    [mn |-> <<"c", "m", "p">>, tag |-> \b00000110, ops |-> <<"src">>],
    [mn |-> <<"c", "p", "c">>, tag |-> \b00000111, ops |-> <<"src">>]
    >>

\* main.rs:102-111
Arithmetic ==
    <<
    [mn |-> <<"s", "u", "b">>, tag |-> \b00000000, ops |-> <<"src">>],
    [mn |-> <<"s", "b", "c">>, tag |-> \b00000001, ops |-> <<"src">>],
    [mn |-> <<"c", "m", "p">>, tag |-> \b00000010, ops |-> <<"src">>],
    [mn |-> <<"c", "p", "c">>, tag |-> \b00000011, ops |-> <<"src">>],
    [mn |-> <<"a", "d", "d">>, tag |-> \b00000100, ops |-> <<"src">>],
    [mn |-> <<"a", "d", "c">>, tag |-> \b00000101, ops |-> <<"src">>],
    [mn |-> <<"m", "u", "l">>, tag |-> \b00000110, ops |-> <<"src">>],
    [mn |-> <<"d", "i", "v">>, tag |-> \b00000111, ops |-> <<"src">>]
    >>

\* main.rs:113-120
Logic ==
    <<
    [mn |-> <<"l", "s", "l">>, tag |-> \b00100000, ops |-> <<"half_imm">>],
    [mn |-> <<"r", "o", "l">>, tag |-> \b00100001, ops |-> <<"half_imm">>],
    [mn |-> <<"l", "s", "r">>, tag |-> \b00100010, ops |-> <<"half_imm">>],
    [mn |-> <<"r", "o", "r">>, tag |-> \b00100011, ops |-> <<"half_imm">>],
    [mn |-> <<"a", "n", "d">>, tag |-> \b00100100, ops |-> <<"src">>],
    [mn |-> <<"o", "r">>, tag |-> \b00100101, ops |-> <<"src">>],
    [mn |-> <<"x", "o", "r">>, tag |-> \b00100110, ops |-> <<"src">>]
    >>

\* main.rs:122-125
LogicUnary ==
    <<
    [mn |-> <<"n", "e", "g">>, tag |-> \b00100111, ops |-> <<>>],
    [mn |-> <<"n", "o", "t">>, tag |-> \b00101111, ops |-> <<>>],
    [mn |-> <<"i", "n", "c">>, tag |-> \b00110111, ops |-> <<>>],
    [mn |-> <<"d", "e", "c">>, tag |-> \b00111111, ops |-> <<>>]
    >>

\* main.rs:127-129
StoreLoad ==
    <<
    [mn |-> <<"l", "d", "s">>, tag |-> \b01000000, ops |-> <<"imm">>],
    [mn |-> <<"s", "t", "s">>, tag |-> \b01010000, ops |-> <<"imm">>]
    >>

\* main.rs:133-135
ImmediateToA ==
    <<
    [mn |-> <<"s", "t", "l">>, tag |-> \b10000000, ops |-> <<"imm">>],
    [mn |-> <<"s", "t", "h">>, tag |-> \b10010000, ops |-> <<"imm">>]
    >>

\* main.rs:137-139
ImmediateToAddr ==
    <<
    [mn |-> <<"s", "d", "l">>, tag |-> \b10100000, ops |-> <<"imm">>],
    [mn |-> <<"s", "d", "h">>, tag |-> \b10110000, ops |-> <<"imm">>]
    >>

\* main.rs:141-149
Jump ==
    <<
    [mn |-> <<"b", "r", "v", "s">>, tag |-> \b11000000, ops |-> <<>>],
    [mn |-> <<"j", "m", "p">>, tag |-> \b11000001, ops |-> <<>>],
    [mn |-> <<"b", "r", "c", "s">>, tag |-> \b11000010, ops |-> <<>>],
    [mn |-> <<"b", "r", "c", "c">>, tag |-> \b11000011, ops |-> <<>>],
    [mn |-> <<"b", "r", "e", "q">>, tag |-> \b11000100, ops |-> <<>>],
    [mn |-> <<"b", "r", "n", "e">>, tag |-> \b11000101, ops |-> <<>>],
    [mn |-> <<"b", "r", "n", "s">>, tag |-> \b11000110, ops |-> <<>>],
    [mn |-> <<"b", "r", "n", "c">>, tag |-> \b11000111, ops |-> <<>>]
    >>

\* ssr without the bit that separates it from the jumps
StatusRegisterNoBit ==
    <<
    [mn |-> <<"s", "s", "r">>, tag |-> \b11000000, ops |-> <<"status">>]
    >>

\* main.rs:151
StatusRegister ==
    <<
    [mn |-> <<"s", "s", "r">>, tag |-> \b11010000, ops |-> <<"status">>]
    >>

\* main.rs:153
Move ==
    <<
    [mn |-> <<"m", "o", "v">>, tag |-> \b11100000, ops |-> <<"special", "dst">>]
    >>

Arms ==
    Arithmetic \o Logic \o LogicUnary \o StoreLoad \o ImmediateToA
        \o ImmediateToAddr \o Jump \o StatusRegister \o Move

----------------------------------------------------------------------------
(* Text: str::split_once("//") and str::split_whitespace as the code uses  *)
(* them.                                                                   *)

\* char::is_whitespace, on the characters a line can hold here
IsWhitespace(c) == c \in {" ", "\t"}

\* The index of the first "//" in line, 0 when there is none
\* (str::split_once searches from the left).
FirstMarker(line) ==
    LET at == {p \in 1..(Len(line) - 1) : line[p] = "/" /\ line[p + 1] = "/"}
    IN  IF at = {} THEN 0 ELSE CHOOSE p \in at : \A q \in at : p <= q

\* The index of the last "//" in line, 0 when there is none
LastMarker(line) ==
    LET at == {p \in 1..(Len(line) - 1) : line[p] = "/" /\ line[p + 1] = "/"}
    IN  IF at = {} THEN 0 ELSE CHOOSE p \in at : \A q \in at : p >= q

\* The split made at the last "//" (rsplit_once) instead of the first
CommentStrippedAtLast(line) ==
    IF LastMarker(line) = 0 THEN line
    ELSE SubSeq(line, 1, LastMarker(line) - 1)

\* main.rs:208  line.split_once("//").map(|x| x.0).unwrap_or(line)
CommentStripped(line) ==
    IF FirstMarker(line) = 0 THEN line
    ELSE SubSeq(line, 1, FirstMarker(line) - 1)

\* The indexes at which a token of line starts: a non-whitespace character
\* at the start of the line or after whitespace.
TokenStarts(line) ==
    {p \in DOMAIN line :
        ~ IsWhitespace(line[p]) /\ (p = 1 \/ IsWhitespace(line[p - 1]))}

\* The index of the last character of the token that starts at s
TokenEnd(line, s) ==
    CHOOSE e \in s..Len(line) :
        /\ \A p \in s..e : ~ IsWhitespace(line[p])
        /\ e = Len(line) \/ IsWhitespace(line[e + 1])

\* main.rs:101  line.split_whitespace().collect_vec(): the maximal runs of
\* non-whitespace characters, from the left
split_whitespace(line) ==
    LET starts == TokenStarts(line)
        nth(k) == CHOOSE s \in starts : Cardinality({t \in starts : t < s}) = k - 1
    IN  [k \in 1..Cardinality(starts) |-> SubSeq(line, nth(k), TokenEnd(line, nth(k)))]

----------------------------------------------------------------------------
(* parse_instr, main.rs:100-157.                                           *)

\* The first arm whose slice pattern matches toks (the literal mnemonic and
\* the number of bindings), 0 for the final `_` arm.
MatchArm(toks) ==
    LET hit == {k \in DOMAIN Arms :
                   /\ Len(toks) = Len(Arms[k].ops) + 1
                   /\ toks[1] = Arms[k].mn}
    IN  IF hit = {} THEN 0 ELSE CHOOSE k \in hit : \A j \in hit : k <= j

\* What each field encoder of arm k returns on its operand token.
ArmFields(k, toks) ==
    [j \in 1..Len(Arms[k].ops) |-> FieldBits(Arms[k].ops[j], toks[j + 1])]

\* tag | f[1] | f[2]: an arm has at most two operands
OrAll(tag, f) ==
    IF Len(f) = 0 THEN tag
    ELSE IF Len(f) = 1 THEN BitOr(tag, f[1])
    ELSE BitOr(BitOr(tag, f[1]), f[2])

\* The value of arm k's expression: each `?` returns None from parse_instr.
ArmValue(k, f) ==
    IF \E j \in DOMAIN f : f[j] = None THEN None ELSE OrAll(Arms[k].tag, f)

parse_tokens(toks) ==
    IF MatchArm(toks) = 0 THEN None
    ELSE ArmValue(MatchArm(toks), ArmFields(MatchArm(toks), toks))

parse_instr(line) == parse_tokens(split_whitespace(line))

----------------------------------------------------------------------------
(* The layout constants and write_byte, main.rs:159-182.                   *)

SIZE_X == 32
STRIDE_X == -2
OFFSET_X == -2
SIZE_Y == 4
STRIDE_Y == 4
OFFSET_Y == -15
STRIDE_Z == -2
OFFSET_Z == 0

\* The two blocks a setblock command places.
TORCH == "minecraft:redstone_wall_torch[facing=east]"
AIR == "minecraft:air"

\* One "setblock ~x ~y ~z <block> replace" line.
Setblock(x, y, z, block) == [x |-> x, y |-> y, z |-> z, block |-> block]

\* The bits paired least significant first: (0..8) without the .rev()
write_byte_lsb_first(x, y, b) ==
    [n \in 1..8 |->
        Setblock(x, y, (n - 1) * STRIDE_Z + OFFSET_Z,
                 IF BitAnd(Shr(b, n - 1), 1) # 0 THEN TORCH ELSE AIR)]

\* main.rs:168-182: the k-th command (k = 0..7) pairs z = k * STRIDE_Z +
\* OFFSET_Z with the bit (b >> m) & 1 for m = 7 - k.
write_byte(x, y, b) ==
    [n \in 1..8 |->
        Setblock(x, y, (n - 1) * STRIDE_Z + OFFSET_Z,
                 IF BitAnd(Shr(b, 8 - n), 1) # 0 THEN TORCH ELSE AIR)]

----------------------------------------------------------------------------
(* Inputs.  Tokens and lines are built from the characters the match       *)
(* table reads.                                                            *)

\* Lines of at most SmallLen, and of ROM_BYTES - Under .. ROM_BYTES + Over
SmallLen == 3
Under == 1
Over == 2
\* Rotations of the pool of well-formed lines
MaxSeed == 1
\* Decimal operands 0..MaxImm (the 4-bit immediates and those just above)
MaxImm == 16

SP == <<" ">>
TAB == <<"\t">>
MARKER == <<"/", "/">>

\* The tokens of ts (at most four) separated by single spaces
Join(ts) ==
    IF Len(ts) = 0 THEN <<>>
    ELSE IF Len(ts) = 1 THEN ts[1]
    ELSE IF Len(ts) = 2 THEN ts[1] \o SP \o ts[2]
    ELSE IF Len(ts) = 3 THEN ts[1] \o SP \o ts[2] \o SP \o ts[3]
    ELSE ts[1] \o SP \o ts[2] \o SP \o ts[3] \o SP \o ts[4]

Digit(d) == <<"0", "1", "2", "3", "4", "5", "6", "7", "8", "9">>[d + 1]

\* n in decimal, n < 100
Decimal(n) == IF n < 10 THEN <<Digit(n)>> ELSE <<Digit(n \div 10), Digit(n % 10)>>

\* The four bits of n, most significant first
Nibble(n) ==
    <<Digit((n \div 8) % 2), Digit((n \div 4) % 2), Digit((n \div 2) % 2), Digit(n % 2)>>

Registers == {<<"r", "0">>, <<"r", "1">>, <<"r", "2">>, <<"r", "3">>}

OtherOperands ==
    { <<"r", "4">>, <<"R", "0">>, <<"r">>, <<"p", "c">>, <<"a", "d", "r">>,
      <<"s", "p">>, <<"s", "r">>, <<"l", "r">>, <<"0", "b">>, <<"0", "1">>,
      <<"0", "0", "0", "0", "1">>, <<"/">>, <<"b", "a", "r">> }

Operands ==
    Registers \cup OtherOperands
        \cup {Decimal(n) : n \in 0..MaxImm}
        \cup {<<"0", "b">> \o Nibble(n) : n \in 0..15}
        \cup {Nibble(n) : n \in 0..15}

Mnemonics ==
    {Arms[k].mn : k \in DOMAIN Arms}
        \cup {<<"f", "o", "o">>, <<"A", "D", "D">>, <<"a", "d">>, <<"n", "o", "p">>}

\* Mnemonics tried with two operands
Mnemonics2 ==
    {<<"m", "o", "v">>, <<"a", "d", "d">>, <<"j", "m", "p">>, <<"s", "s", "r">>}

TokenSeqs ==
    {<<>>}
        \cup {<<m>> : m \in Mnemonics}
        \cup {<<m, o>> : m \in Mnemonics, o \in Operands}
        \cup {<<m, o, d>> : m \in Mnemonics2, o \in Operands,
                            d \in Registers \cup {<<"r", "4">>, <<"p", "c">>}}
        \cup {<<m, o, d, d>> : m \in {<<"m", "o", "v">>}, o \in Registers, d \in Registers}

\* Texts put before a comment marker, and texts put after it
Commented ==
    { <<<<"a", "d", "d">>, <<"r", "1">>>>, <<<<"j", "m", "p">>>>,
      <<<<"m", "o", "v">>, <<"s", "r">>, <<"r", "3">>>>, <<<<"f", "o", "o">>, <<"b", "a", "r">>>>,
      <<<<"l", "d", "s">>>>, <<>> }
Before == {<<>>, SP, TAB, <<"/">>, SP \o <<"/">>, <<"/">> \o SP}
After ==
    { <<>>, SP \o <<"c">>, <<"/">>, MARKER, SP \o <<"r", "1">>,
      SP \o <<"x">> \o SP \o MARKER \o SP \o <<"y">> }

EncInputs ==
    {Join(ts) : ts \in TokenSeqs}
        \cup {b \o Join(ts) \o a : ts \in Commented, b \in {SP, TAB \o SP}, a \in {SP, TAB}}
        \cup {Join(ts) \o b \o MARKER \o a : ts \in Commented, b \in Before, a \in After}

\* The spec's end-to-end example
Example ==
    << Join(<<<<"a", "d", "d">>, <<"r", "1">>>>),
       Join(<<<<"j", "m", "p">>>>),
       Join(<<<<"m", "o", "v">>, <<"r", "2">>, <<"r", "0">>>>) >>

GoodLines ==
    << Join(<<<<"a", "d", "d">>, <<"r", "1">>>>),
       Join(<<<<"j", "m", "p">>>>) \o SP \o MARKER \o SP \o <<"l", "o", "o", "p">>,
       Join(<<<<"m", "o", "v">>, <<"s", "r">>, <<"r", "3">>>>),
       SP \o SP \o Join(<<<<"d", "e", "c">>>>),
       Join(<<<<"s", "s", "r">>, <<"1", "0", "1", "1">>>>),
       <<"l", "s", "l">> \o TAB \o <<"4">> \o SP,
       Join(<<<<"s", "u", "b">>, <<"r", "0">>>>),
       Join(<<<<"s", "t", "h">>, <<"0", "b", "0", "1", "1", "0">>>>) \o MARKER,
       Join(<<<<"s", "d", "l">>, <<"1", "5">>>>) >>

BadLines ==
    { Join(<<<<"f", "o", "o">>, <<"b", "a", "r">>>>),
      <<>>,
      SP \o TAB,
      MARKER \o SP \o <<"a", "d", "d">> \o SP \o <<"r", "1">>,
      Join(<<<<"a", "d", "d">>>>),
      Join(<<<<"a", "d", "d">>, <<"r", "4">>>>) \o SP \o MARKER \o <<"x">>,
      Join(<<<<"j", "m", "p">>, <<"r", "1">>>>) }

\* n well-formed lines: the pool from its s-th line on, cyclically
Program(n, s) ==
    [k \in 1..n |-> GoodLines[((s + k - 1) % Len(GoodLines)) + 1]]

Lengths == (0..SmallLen) \cup ((ROM_BYTES - Under)..(ROM_BYTES + Over))

\* prog with line p replaced by b and, when q is another line, line q by c
Spoiled(prog, p, b, q, c) ==
    [k \in DOMAIN prog |-> IF k = p THEN b ELSE IF k = q THEN c ELSE prog[k]]

Sources ==
    {Example}
        \cup {Program(n, s) : n \in Lengths, s \in 0..MaxSeed}
        \cup {Spoiled(Program(n, 0), p, b, q, c) :
                 n \in Lengths \ {0}, p \in {1, 2, ROM_BYTES, ROM_BYTES + 1, ROM_BYTES + 2},
                 b \in BadLines, q \in {1, 3, ROM_BYTES + 2},
                 c \in {<<>>, <<"n", "o", "p">>}}

----------------------------------------------------------------------------
(* State.                                                                  *)

VARIABLES
    input,      \* main: the lines of the source file, input.lines()
    pc,         \* main: "lines" (207-215), "emit" (220-226), "done",
                \*   "returned" (212), "panicked" (index out of bounds, 209)
    i,          \* main: the line index of 207, then the byte index of 220
    row,        \* main: the iteration of the `for y` loop, 221
    col,        \* main: the iteration of the `for x` loop, 222
    opcodes,    \* main: the ROM image, 205
    diag,       \* what eprintln! wrote, 211
    created,    \* whether File::create ran, 218
    out,        \* the commands written to the file, 223
    source,     \* encoder: the source line given
    stage,      \* encoder: "given", "stripped", "tokens", "matched", "encoded"
    stripped,   \* encoder: the argument of parse_instr, 208
    tokens,     \* encoder: the slice matched, 101
    arm,        \* encoder: the arm that matched, 0 for `_`
    fields,     \* encoder: what the arm's field encoders returned
    result      \* encoder: what parse_instr returned

driver == <<input, pc, i, row, col, opcodes, diag, created, out>>
encoder == <<source, stage, stripped, tokens, arm, fields, result>>
vars == <<input, pc, i, row, col, opcodes, diag, created, out,
          source, stage, stripped, tokens, arm, fields, result>>

DriverIdle ==
    /\ input = <<>>
    /\ pc = "idle"
    /\ i = 0
    /\ row = 0
    /\ col = 0
    /\ opcodes = <<>>
    /\ diag = <<>>
    /\ created = FALSE
    /\ out = <<>>

EncoderIdle ==
    /\ source = <<>>
    /\ stage = "idle"
    /\ stripped = <<>>
    /\ tokens = <<>>
    /\ arm = 0
    /\ fields = <<>>
    /\ result = None

----------------------------------------------------------------------------
(* main, main.rs:203-227.                                                  *)

\* 203-205: the source is read and the image is vec![0; ROM_BYTES]
Init ==
    /\ input \in Sources
    /\ pc = "lines"
    /\ i = 0
    /\ row = 0
    /\ col = 0
    /\ opcodes = [k \in 1..ROM_BYTES |-> 0]
    /\ diag = <<>>
    /\ created = FALSE
    /\ out = <<>>
    /\ EncoderIdle

\* 208: what the loop body matches on for line i
Encoded(n) == parse_instr(CommentStripped(input[n + 1]))

\* The opcode stored one byte further on
StoreOpcodeNext ==
    /\ pc = "lines"
    /\ i < Len(input)
    /\ Encoded(i) # None
    /\ i < Len(opcodes)
    /\ opcodes' = [opcodes EXCEPT ![i + 2] = Encoded(i)]
    /\ i' = i + 1
    /\ UNCHANGED <<input, pc, row, col, diag, created, out>>
    /\ UNCHANGED encoder

\* 209: Some(v) => opcodes[i] = v, with i inside the image
StoreOpcode ==
    /\ pc = "lines"
    /\ i < Len(input)
    /\ Encoded(i) # None
    /\ i < Len(opcodes)
    /\ opcodes' = [opcodes EXCEPT ![i + 1] = Encoded(i)]
    /\ i' = i + 1
    /\ UNCHANGED <<input, pc, row, col, diag, created, out>>
    /\ UNCHANGED encoder

\* 209: Some(v) => opcodes[i] = v, with i past the image: the index panics
IndexPanic ==
    /\ pc = "lines"
    /\ i < Len(input)
    /\ Encoded(i) # None
    /\ i >= Len(opcodes)
    /\ pc' = "panicked"
    /\ UNCHANGED <<input, i, row, col, opcodes, diag, created, out>>
    /\ UNCHANGED encoder

\* The diagnostic with a 1-based line number and the comment stripped
RejectOneBased ==
    /\ pc = "lines"
    /\ i < Len(input)
    /\ Encoded(i) = None
    /\ diag' = Append(diag, [index |-> i + 1, text |-> CommentStripped(input[i + 1])])
    /\ pc' = "returned"
    /\ UNCHANGED <<input, i, row, col, opcodes, created, out>>
    /\ UNCHANGED encoder

\* 210-213: None => eprintln!(...); return
Reject ==
    /\ pc = "lines"
    /\ i < Len(input)
    /\ Encoded(i) = None
    /\ diag' = Append(diag, [index |-> i, text |-> input[i + 1]])
    /\ pc' = "returned"
    /\ UNCHANGED <<input, i, row, col, opcodes, created, out>>
    /\ UNCHANGED encoder

\* 217-220: the lines are exhausted; File::create, let mut i = 0
CreateFile ==
    /\ pc = "lines"
    /\ i = Len(input)
    /\ created' = TRUE
    /\ i' = 0
    /\ row' = 0
    /\ col' = 0
    /\ pc' = "emit"
    /\ UNCHANGED <<input, opcodes, diag, out>>
    /\ UNCHANGED encoder

\* Every row written at the first row's height: y without its stride
EmitByteOneRow ==
    /\ pc = "emit"
    /\ row < SIZE_Y
    /\ out' = out \o write_byte(col * STRIDE_X + OFFSET_X, OFFSET_Y, opcodes[i + 1])
    /\ i' = i + 1
    /\ col' = IF col + 1 < SIZE_X THEN col + 1 ELSE 0
    /\ row' = IF col + 1 < SIZE_X THEN row ELSE row + 1
    /\ UNCHANGED <<input, pc, opcodes, diag, created>>
    /\ UNCHANGED encoder

\* 221-225: one iteration of the inner loop
EmitByte ==
    /\ pc = "emit"
    /\ row < SIZE_Y
    /\ out' = out \o write_byte(col * STRIDE_X + OFFSET_X,
                                row * STRIDE_Y + OFFSET_Y, opcodes[i + 1])
    /\ i' = i + 1
    /\ col' = IF col + 1 < SIZE_X THEN col + 1 ELSE 0
    /\ row' = IF col + 1 < SIZE_X THEN row ELSE row + 1
    /\ UNCHANGED <<input, pc, opcodes, diag, created>>
    /\ UNCHANGED encoder

\* 226-227: both loops are exhausted
Finish ==
    /\ pc = "emit"
    /\ row = SIZE_Y
    /\ pc' = "done"
    /\ UNCHANGED <<input, i, row, col, opcodes, diag, created, out>>
    /\ UNCHANGED encoder

Next ==
    \/ StoreOpcode
    \/ IndexPanic
    \/ Reject
    \/ CreateFile
    \/ EmitByte
    \/ Finish

Spec == Init /\ [][Next]_vars

----------------------------------------------------------------------------
(* One line through the encoder, step by step: main.rs:208, then          *)
(* parse_instr 100-157.                                                    *)

InitEnc ==
    /\ DriverIdle
    /\ source \in EncInputs
    /\ stage = "given"
    /\ stripped = <<>>
    /\ tokens = <<>>
    /\ arm = 0
    /\ fields = <<>>
    /\ result = None

\* 208
Strip ==
    /\ stage = "given"
    /\ stripped' = CommentStripped(source)
    /\ stage' = "stripped"
    /\ UNCHANGED <<source, tokens, arm, fields, result>>
    /\ UNCHANGED driver

\* 101
Tokenize ==
    /\ stage = "stripped"
    /\ tokens' = split_whitespace(stripped)
    /\ stage' = "tokens"
    /\ UNCHANGED <<source, stripped, arm, fields, result>>
    /\ UNCHANGED driver

\* 101-155: the first arm whose pattern matches
Match ==
    /\ stage = "tokens"
    /\ arm' = MatchArm(tokens)
    /\ stage' = "matched"
    /\ UNCHANGED <<source, stripped, tokens, fields, result>>
    /\ UNCHANGED driver

\* 104-155: the arm's expression, or the `_` arm's return None
Encode ==
    /\ stage = "matched"
    /\ fields' = IF arm = 0 THEN <<>> ELSE ArmFields(arm, tokens)
    /\ result' = IF arm = 0 THEN None ELSE ArmValue(arm, ArmFields(arm, tokens))
    /\ stage' = "encoded"
    /\ UNCHANGED <<source, stripped, tokens, arm>>
    /\ UNCHANGED driver

NextEnc ==
    \/ Strip
    \/ Tokenize
    \/ Match
    \/ Encode

SpecEnc == InitEnc /\ [][NextEnc]_vars

----------------------------------------------------------------------------
(* Properties of the driver, stated for Spec.                              *)

\* The image is complete: the line loop ended without a return or a panic.
ImageBuilt == pc \in {"emit", "done"}

\* Every line of every source, paired with what the loop body's match sees
\* for it (main.rs:208).
LineValues ==
    {<<l, parse_instr(CommentStripped(l))>> :
        l \in UNION {{src[k] : k \in DOMAIN src} : src \in Sources}}

\* The encoding of source line n (0-based), None when it is malformed
ValueOfLine(n) == (CHOOSE p \in LineValues : p[1] = input[n + 1])[2]

\* The 0-based indexes of the source lines that match no instruction shape.
BadIndexes == {n \in 0..(Len(input) - 1) : ValueOfLine(n) = None}

\* The least element of a non-empty set of numbers
Least(S) == CHOOSE n \in S : \A k \in S : n <= k

\* bit m of byte b, counted from the most significant (m = 0) down
BitMsbFirst(b, m) == (b \div (2 ^ (7 - m))) % 2

\* C1 as stated: the example source "add r1", "jmp", "mov r2 r0" yields the
\* image 0b000_01_000, 0b110_00_001, 0b111_00_00_0 | special_to_bits("r2") |
\* dst_to_bits("r0"), then 125 zero bytes.
C1_AsStated ==
    (input = Example /\ ImageBuilt) =>
        /\ opcodes[1] = \b00001000
        /\ opcodes[2] = \b11000001
        /\ opcodes[3] = BitOr(BitOr(\b11100000, special_to_bits(<<"r", "2">>)),
                              dst_to_bits(<<"r", "0">>))
        /\ \A k \in 4..ROM_BYTES : opcodes[k] = 0

\* C1, amended: the example source yields 0b000_01_100 (the `add` constant
\* 0b000_00_100 with r1 in bits 3-4) as byte 0; bytes 1 and 2 are as stated
\* and bytes 3..127 are zero.
C1_Example ==
    (input = Example /\ ImageBuilt) =>
        /\ Len(opcodes) = ROM_BYTES
        /\ opcodes[1] = \b00001100
        /\ opcodes[2] = \b11000001
        /\ opcodes[3] = \b11110000
        /\ opcodes[3] = BitOr(BitOr(\b11100000, special_to_bits(<<"r", "2">>)),
                              dst_to_bits(<<"r", "0">>))
        /\ \A k \in 4..ROM_BYTES : opcodes[k] = 0

C1_Witness == input = Example /\ pc = "done"

\* C2: in a source of at most 128 lines with a malformed line, the run stops
\* at the first malformed line: it never gets past that line, it returns
\* with one diagnostic carrying that line's 0-based index and its whole text,
\* no later line reaches the image, no file is created and no command is
\* written.
C2_FirstMalformedLineHalts ==
    LET bad == BadIndexes
        first == Least(bad)
    IN  (Len(input) <= ROM_BYTES /\ bad # {}) =>
            /\ pc \in {"lines", "returned"}
            /\ i <= first
            /\ \A k \in (first + 1)..ROM_BYTES : opcodes[k] = 0
            /\ created = FALSE
            /\ out = <<>>
            /\ pc = "lines" => diag = <<>> /\ i < Len(input)
            /\ pc = "returned" =>
                  /\ i = first
                  /\ diag = <<[index |-> first, text |-> input[first + 1]]>>
                  /\ ~ ENABLED Next

\* A run that stopped at line 1 of a source with two malformed lines, the
\* first of them carrying a comment.
C2_Witness ==
    /\ pc = "returned"
    /\ Len(input) <= ROM_BYTES
    /\ Cardinality(BadIndexes) = 2
    /\ diag[1].index = 1
    /\ FirstMarker(diag[1].text) > 1

\* C3 as stated: a source of more than 128 well-formed lines runs to
\* completion: the run does not fail, the image holds lines 0..127 and all
\* 1024 commands are written.
C3_AsStated ==
    (Len(input) > ROM_BYTES /\ BadIndexes = {}) =>
        /\ pc \notin {"panicked", "returned"}
        /\ pc = "done" =>
              /\ \A n \in 0..(ROM_BYTES - 1) : opcodes[n + 1] = ValueOfLine(n)
              /\ Len(out) = 8 * ROM_BYTES

\* The coordinates the commands of cmds target.
Targets(cmds) == {<<cmds[p].x, cmds[p].y, cmds[p].z>> : p \in DOMAIN cmds}

\* C4: no two commands written target the same coordinate, so the
\* 8 * 128 commands of a complete run target 1024 distinct coordinates.
C4_CoordinatesDistinct ==
    /\ Cardinality(Targets(out)) = Len(out)
    /\ pc = "done" => Cardinality(Targets(out)) = 1024

C4_Witness == pc = "done" /\ Len(out) = 1024

\* C5: the command at output position 8 * n + m is the one for bit m
\* (most significant first) of byte n: x = -2 * (n mod 32) - 2,
\* y = 4 * (n div 32) - 15, z = -2 * m, a torch when the bit is 1 and air
\* when it is 0; a complete run has written exactly 1024 of them.
C5_CommandOrder ==
    /\ pc = "emit" => Len(out) = 8 * i
    /\ pc = "done" => Len(out) = 1024
    /\ \A p \in 1..Len(out) :
          LET n == (p - 1) \div 8
              m == (p - 1) % 8
          IN  out[p] = [x |-> (0 - 2) * (n % 32) - 2,
                        y |-> 4 * (n \div 32) - 15,
                        z |-> (0 - 2) * m,
                        block |-> IF BitMsbFirst(opcodes[n + 1], m) = 1
                                  THEN TORCH ELSE AIR]

\* A complete run on a full image whose last byte has set and clear bits.
C5_Witness ==
    /\ pc = "done"
    /\ Len(input) = ROM_BYTES
    /\ out[1018].block = TORCH
    /\ out[1019].block = AIR

\* C6: through the line loop the image has 128 bytes; once k lines are
\* encoded, byte n is the encoding of line n for n < k and 0 for n >= k.
\* A source of n <= 128 well-formed lines leaves bytes n..127 zero.
C6_ImagePrefix ==
    /\ Len(opcodes) = ROM_BYTES
    /\ pc \in {"lines", "returned", "panicked"} =>
          /\ i <= ROM_BYTES
          /\ \A n \in 0..(i - 1) : opcodes[n + 1] = ValueOfLine(n)
          /\ \A n \in i..(ROM_BYTES - 1) : opcodes[n + 1] = 0
    /\ ImageBuilt =>
          /\ Len(input) <= ROM_BYTES
          /\ \A n \in 0..(Len(input) - 1) : opcodes[n + 1] = ValueOfLine(n)
          /\ \A n \in Len(input)..(ROM_BYTES - 1) : opcodes[n + 1] = 0

\* Part of the way through a source, the last line encoded being non-zero.
C6_Witness ==
    /\ pc = "lines"
    /\ 1 < i
    /\ i < Len(input)
    /\ opcodes[i] # 0
    /\ opcodes[i - 1] # opcodes[i]

----------------------------------------------------------------------------
(* Properties of the encoder, stated for SpecEnc.                          *)

\* t holds the comment marker "//" at index p
MarkerAt(t, p) == p >= 1 /\ p < Len(t) /\ t[p] = "/" /\ t[p + 1] = "/"

HasMarker(t) == \E p \in 1..(Len(t) - 1) : MarkerAt(t, p)

\* What the driver's match sees for the line t alone (main.rs:208)
DriverResult(t) == parse_instr(CommentStripped(t))

\* C7 as stated: whenever the line is L, then "//", then any text, with no
\* "//" inside L, the result is the result for L alone.
C7_AsStated ==
    stage = "encoded" =>
        \A p \in 1..(Len(source) - 1) :
            (MarkerAt(source, p) /\ ~ HasMarker(SubSeq(source, 1, p - 1))) =>
                result = DriverResult(SubSeq(source, 1, p - 1))

\* C7, amended: whenever the line is L, then "//", then any text, with no
\* "//" inside L and L not ending in "/", the text tokenized is L and the
\* result is the result for L alone; in every case the text tokenized is
\* what precedes the first "//" of the line, the whole line when it has
\* none.
C7_TrailingComment ==
    stage = "encoded" =>
        /\ \A p \in 1..(Len(source) - 1) :
              LET L == SubSeq(source, 1, p - 1)
              IN  (/\ MarkerAt(source, p)
                   /\ ~ HasMarker(L)
                   /\ (L = <<>> \/ L[Len(L)] # "/")) =>
                      /\ stripped = L
                      /\ tokens = split_whitespace(L)
                      /\ result = DriverResult(L)
        /\ \A p \in 1..(Len(source) - 1) :
              (MarkerAt(source, p) /\ \A q \in 1..(p - 1) : ~ MarkerAt(source, q)) =>
                  stripped = SubSeq(source, 1, p - 1)
        /\ ~ HasMarker(source) => stripped = source

\* A well-formed instruction followed by a comment that itself holds "//".
C7_Witness ==
    /\ stage = "encoded"
    /\ result # None
    /\ HasMarker(source)
    /\ HasMarker(SubSeq(source, Len(stripped) + 3, Len(source)))

\* The bits an operand field of each kind may occupy.
FieldMask(kind) ==
    CASE kind \in {"src", "half_imm"} -> \b00011000
      [] kind \in {"imm", "status"} -> \b00001111
      [] kind = "dst" -> \b00000110
      [] kind = "special" -> \b00011001

\* a and b have no set bit in common
Disjoint(a, b) == \A k \in 0..7 : Bit(a, k) = 0 \/ Bit(b, k) = 0

\* C8: when a line encodes, the constant of its arm and the bits its field
\* encoders returned are pairwise disjoint, the byte is their arithmetic
\* sum, and masking the byte with a field's mask gives that field's bits
\* back.
C8_DisjointBits ==
    (stage = "encoded" /\ result # None) =>
        LET parts == <<Arms[arm].tag>> \o fields
        IN  /\ \A a \in DOMAIN parts : \A b \in DOMAIN parts :
                  a < b => Disjoint(parts[a], parts[b])
            /\ result = Arms[arm].tag
                          + (IF Len(fields) >= 1 THEN fields[1] ELSE 0)
                          + (IF Len(fields) >= 2 THEN fields[2] ELSE 0)
            /\ \A j \in DOMAIN fields :
                  /\ BitAnd(result, FieldMask(Arms[arm].ops[j])) = fields[j]
                  /\ Disjoint(Arms[arm].tag, FieldMask(Arms[arm].ops[j]))

\* A mov from a special register: both fields are non-zero.
C8_Witness ==
    /\ stage = "encoded"
    /\ result # None
    /\ Len(fields) = 2
    /\ fields[1] % 2 = 1
    /\ fields[2] # 0

\* The special registers special_to_bits names.
SpecialRegisters == {<<"p", "c">>, <<"a", "d", "r">>, <<"s", "p">>, <<"s", "r">>}

\* The arm matched has an extended/special register as its first operand.
SpecialOperand == stage = "encoded" /\ arm # 0 /\ Arms[arm].ops # <<>> /\ Arms[arm].ops[1] = "special"

\* What C9 says of the bits of an accepted token.
SpecialBits ==
    /\ tokens[2] \in Registers =>
          fields[1] = src_to_bits(tokens[2]) /\ Bit(fields[1], 0) = 0
    /\ (fields[1] # None /\ tokens[2] \notin Registers) =>
          /\ Bit(fields[1], 0) = 1
          /\ fields[1] = 1 + 8 * ((fields[1] \div 8) % 4)
          /\ \A t \in Operands \ {tokens[2]} : special_to_bits(t) # fields[1]

\* C9 as stated: the source operand of mov is accepted exactly when it is
\* r0..r3 or one of 3 special registers.
C9_AsStated ==
    SpecialOperand =>
        /\ (fields[1] # None /\ tokens[2] \notin Registers) =>
              Cardinality({t \in Operands \ Registers : special_to_bits(t) # None}) = 3
        /\ SpecialBits

\* C9, amended: the source operand of mov is accepted exactly when it is
\* r0..r3 or one of the 4 special registers pc, adr, sp, sr; r0..r3 get the
\* bits of the general-register encoder (bit 0 clear); a special register
\* gets bit 0 set and its own 2-bit index in bits 3-4, and nothing else.
C9_SpecialField ==
    SpecialOperand =>
        /\ fields[1] # None <=> tokens[2] \in Registers \cup SpecialRegisters
        /\ Cardinality({t \in Operands \ Registers : special_to_bits(t) # None}) = 4
        /\ SpecialBits

\* mov sr rN encoded.
C9_Witness ==
    /\ SpecialOperand
    /\ tokens[2] = <<"s", "r">>
    /\ result # None

\* Every token sequence tried, with what parse_instr makes of it.
Encodings == {<<ts, parse_tokens(ts)>> : ts \in TokenSeqs}

\* The operand a token spells: 0bXXXX spells the decimal it aliases.
Canon(tok) ==
    IF \E n \in 0..15 : tok = <<"0", "b">> \o Nibble(n)
    THEN Decimal(CHOOSE n \in 0..15 : tok = <<"0", "b">> \o Nibble(n))
    ELSE tok

SameInstruction(a, b) ==
    /\ Len(a) = Len(b)
    /\ a[1] = b[1]
    /\ \A j \in 2..Len(a) : Canon(a[j]) = Canon(b[j])

\* C10: a byte a line encodes to is the byte of no other instruction: every
\* token sequence that encodes to it has the same mnemonic and the same
\* operands, up to the 0b spelling of a 4-bit immediate.
C10_Injective ==
    (stage = "encoded" /\ result # None) =>
        \A e \in Encodings : e[2] = result => SameInstruction(e[1], tokens)

\* A line whose byte another spelling also produces.
C10_Witness ==
    /\ stage = "encoded"
    /\ result # None
    /\ \E e \in Encodings : e[2] = result /\ e[1] # tokens

====
